---- MODULE Spec2Model ----
(***************************************************************************)
(* Guided-retrieval assist loop of src/main_code.py: the session lifecycle *)
(* (start_assist / stop_assist, called from the WhatsApp webhook), the     *)
(* assist_loop thread with its three time gates, and guidance_phrase.      *)
(*                                                                         *)
(* Units.  Time is counted in half seconds (2.5 s = 5, 1.0 s = 2,          *)
(* 3 s = 6).  Normalised image coordinates are counted in 1/200 of the     *)
(* frame (0.06 = 12, 0.14 = 28); coordinates are drawn from even values so *)
(* that the midpoint (x_min + x_max) / 2 is exact.  Binary floating-point  *)
(* rounding of the subtraction is outside the model.                       *)
(*                                                                         *)
(* Optional values: Python's None is the empty tuple <<>>; a point is      *)
(* <<x, y>>, a box is <<x_min, y_min, x_max, y_max>>, an utterance is the   *)
(* tuple of the pieces of the spoken string.                               *)
(***************************************************************************)
EXTENDS Integers, Sequences, FiniteSets, TLC

VARIABLES
    clock,              \* time.time(), in half seconds
    ASSIST_STOP,        \* threading.Event: is_set()
    ASSIST_THREAD,      \* global: id of the last Thread object assigned, 0 = None
    nthreads,           \* number of Thread objects created so far
    hpc,                \* webhook handler: position inside start_assist
    htarget,            \* webhook handler: target parsed from the message
    hreply,             \* webhook handler: status of the last finished request
    overlap,            \* history: another handler was inside start_assist during this call
    superseded,         \* history: loop threads alive when a start requested cancellation
    lpc,                \* loop thread: position
    tname,              \* loop thread: target_name argument
    cam,                \* loop thread: camera handle "none" | "open" | "released"
    hands,              \* loop thread: init_hands_detector() returned a detector
    last_target_time,
    last_guidance_time,
    last_snapshot_time,
    target_center,
    target_bbox,
    hand_center,
    fired,              \* history: gates that fired in the thread's last iteration
    trace,              \* history: what else the thread's last iteration did
    said,               \* history: last argument the thread gave to speak()
    afterStop,          \* history: polls / snapshots / utterances made while ASSIST_STOP is set
    inventory,          \* the stored inventory: what load_inventory() returns
    command             \* history: the last console command that touched the store

vars == <<clock, ASSIST_STOP, ASSIST_THREAD, nthreads, hpc, htarget, hreply, overlap, superseded,
          lpc, tname, cam, hands, last_target_time, last_guidance_time,
          last_snapshot_time, target_center, target_bbox, hand_center,
          fired, trace, said, afterStop, inventory, command>>

pantryVars == <<inventory, command>>
handlerVars == <<hpc, htarget, hreply, overlap, superseded>>
loopVars == <<lpc, tname, cam, hands, last_target_time, last_guidance_time,
              last_snapshot_time, target_center, target_bbox, hand_center,
              fired, trace, said>>

----------------------------------------------------------------------------
(* Bounds of the model *)

MaxThreads == 2         \* Thread objects created in a lifecycle run
MaxTicks == 1           \* half seconds the clock advances in a lifecycle run
MaxGateTicks == 7       \* half seconds the clock advances in a gate run
MaxCount == 2           \* largest count the item detection reports

(* Program constants *)

Epoch == 10                         \* time.time() at start: far more than any interval
TargetInterval == 5                 \* 2.5 s
GuidanceInterval == 2               \* 1.0 s
DEBUG_SNAPSHOT_INTERVAL_SEC == 6    \* 3 s
ASSIST_DEBUG == TRUE
small == 12                         \* 0.06
medium == 28                        \* 0.14

None == <<>>
Handlers == {"h1", "h2"}
Threads == 1..MaxThreads

----------------------------------------------------------------------------
(* Pure functions *)

\* str.join: the parts with the separator between neighbours
RECURSIVE Join(_, _)
Join(sep, parts) ==
    IF Len(parts) = 0 THEN <<>>
    ELSE IF Len(parts) = 1 THEN <<parts[1]>>
    ELSE <<parts[1], sep>> \o Join(sep, Tail(parts))

\* x_phrase with the medium threshold taken inclusively
x_phrase_inclusive(dx) ==
    IF dx >= medium THEN <<"move right more">>
    ELSE IF dx > small THEN <<"move right a bit">>
    ELSE IF dx <= -medium THEN <<"move left more">>
    ELSE IF dx < -small THEN <<"move left a bit">>
    ELSE <<>>

\* x_phrase of guidance_phrase; None (<<>>) or a one-element list to append
x_phrase(dx) ==
    IF dx > medium THEN <<"move right more">>
    ELSE IF dx > small THEN <<"move right a bit">>
    ELSE IF dx < -medium THEN <<"move left more">>
    ELSE IF dx < -small THEN <<"move left a bit">>
    ELSE None

y_phrase(dy) ==
    IF dy > medium THEN <<"move down more">>
    ELSE IF dy > small THEN <<"move down a bit">>
    ELSE IF dy < -medium THEN <<"move up more">>
    ELSE IF dy < -small THEN <<"move up a bit">>
    ELSE None

\* guidance_phrase with the y part appended first
guidance_phrase_y_first(dx, dy) ==
    LET parts == y_phrase(dy) \o x_phrase(dx)
    IN  IF parts = <<>> THEN <<"good position">> ELSE Join(" and ", parts)

guidance_phrase(dx, dy) ==
    LET parts == x_phrase(dx) \o y_phrase(dy)
    IN  IF parts = <<>> THEN <<"good position">> ELSE Join(" and ", parts)

\* target_center of a box returned by the locator
Center(b) == <<(b[1] + b[3]) \div 2, (b[2] + b[4]) \div 2>>

\* The candidate models of the locator, in the order they are tried
model_ids == <<"sonnet", "us.sonnet", "haiku">>

\* The for loop going on to the next candidate after any exception
RECURSIVE InvokeFrom_any_error_continues(_, _)
InvokeFrom_any_error_continues(tries, i) ==
    IF i > Len(model_ids) THEN [result |-> "exhausted", invoked |-> i - 1]
    ELSE IF tries[i] = "ok" THEN [result |-> "response", invoked |-> i]
    ELSE InvokeFrom_any_error_continues(tries, i + 1)

\* The for loop over model_ids, from the i-th candidate on.  tries[i] is
\* what invoke_model does for the i-th candidate: "ok" (a response: break),
\* "validation" (an exception whose text holds ValidationException:
\* continue), "error" (any other exception: raise).  invoked counts the
\* invoke_model calls made.
RECURSIVE InvokeFrom(_, _)
InvokeFrom(tries, i) ==
    IF i > Len(model_ids) THEN [result |-> "exhausted", invoked |-> i - 1]
    ELSE IF tries[i] = "ok" THEN [result |-> "response", invoked |-> i]
    ELSE IF tries[i] = "validation" THEN InvokeFrom(tries, i + 1)
    ELSE [result |-> "error", invoked |-> i]

\* An exception leaving the function
Raised == <<"raised">>

\* detect_target_bbox_with_bedrock.  resp describes one call:
\*   enc     image_to_base64: "ok", "fails" (imencode reports no success:
\*           None is returned) or "raises"; the call is made before the try
\*   tries   what invoke_model does for each candidate
\*   parsed  the body and the text in it decode to a JSON object
\*   found, bbox   the object's entries
\*   strings the entries of bbox are JSON strings spelling the numbers
\*           (Python orders such strings as it orders the numbers)
\* Inside the try every exception ends in `return None`.  The loop reads
\* only the "bbox" entry of the result.
detect_target_bbox_with_bedrock(resp) ==
    IF resp.enc = "raises" THEN Raised
    ELSE IF resp.enc = "fails" THEN None
    ELSE IF InvokeFrom(resp.tries, 1).result # "response" THEN None
    ELSE IF ~resp.parsed THEN None
    ELSE IF ~resp.found THEN None
    ELSE IF Len(resp.bbox) # 4 THEN None
    ELSE IF resp.bbox[3] <= resp.bbox[1] \/ resp.bbox[4] <= resp.bbox[2] THEN None
    ELSE resp.bbox

RECURSIVE SumX(_)
SumX(lms) == IF lms = <<>> THEN 0 ELSE Head(lms)[1] + SumX(Tail(lms))
RECURSIVE SumY(_)
SumY(lms) == IF lms = <<>> THEN 0 ELSE Head(lms)[2] + SumY(Tail(lms))

\* get_hand_center taking the middle of the frame without a detector
get_hand_center_default_middle(landmarks, detector) ==
    IF ~detector THEN <<100, 100>>
    ELSE IF landmarks = <<>> THEN None
    ELSE <<SumX(landmarks) \div Len(landmarks), SumY(landmarks) \div Len(landmarks)>>

\* get_hand_center without its raising path: detector is hands[t];
\* landmarks is the landmark list of the first detected hand, <<>> when
\* multi_hand_landmarks is empty
get_hand_center(landmarks, detector) ==
    IF ~detector THEN None
    ELSE IF landmarks = <<>> THEN None
    ELSE <<SumX(landmarks) \div Len(landmarks), SumY(landmarks) \div Len(landmarks)>>

\* The three utterances of assist_loop that are not guidance_phrase
StartedPhrase(name) == <<"Guidance started for ", name>>
TargetLostPhrase(name) == <<"I cannot see ", name>>
HandLostPhrase == <<"I cannot see your hand">>

\* The guidance gate asking for the hand before the target
GuidanceUtterance_hand_first(tc, hc, name) ==
    IF tc # None /\ hc # None
        THEN guidance_phrase(tc[1] - hc[1], tc[2] - hc[2])
    ELSE IF hc = None THEN HandLostPhrase
    ELSE TargetLostPhrase(name)

\* The guidance gate guiding from the frame's corner when no hand is seen
GuidanceUtterance_no_hand_branch(tc, hc, name) ==
    IF tc = None THEN TargetLostPhrase(name)
    ELSE IF hc = None THEN guidance_phrase(tc[1], tc[2])
    ELSE guidance_phrase(tc[1] - hc[1], tc[2] - hc[2])

\* The if / elif / elif of the guidance gate: the text given to speak(),
\* <<>> when no branch is taken
GuidanceUtterance(tc, hc, name) ==
    IF tc # None /\ hc # None
        THEN guidance_phrase(tc[1] - hc[1], tc[2] - hc[2])
    ELSE IF tc = None THEN TargetLostPhrase(name)
    ELSE IF hc = None THEN HandLostPhrase
    ELSE <<>>

\* The guidance gate written as three separate ifs
GuidanceCalls_separate_ifs(tc, hc, name) ==
    (IF tc # None /\ hc # None
        THEN <<guidance_phrase(tc[1] - hc[1], tc[2] - hc[2])>> ELSE <<>>)
    \o (IF tc = None THEN <<TargetLostPhrase(name)>> ELSE <<>>)
    \o (IF hc = None THEN <<HandLostPhrase>> ELSE <<>>)

\* The speak() calls of one firing of the guidance gate, in order: one per
\* branch taken, and the chain takes at most one branch
GuidanceCalls(tc, hc, name) ==
    LET text == GuidanceUtterance(tc, hc, name)
    IN  IF text = <<>> THEN <<>> ELSE <<text>>

\* One gate: now - last > interval
GateFires(now, last, interval) == now - last > interval

----------------------------------------------------------------------------
(* Inputs *)

GoodBox == <<80, 80, 120, 120>>         \* [0.40, 0.40, 0.60, 0.60]
Call(enc, tries, parsed, found, bbox) ==
    [enc |-> enc, tries |-> tries, parsed |-> parsed, found |-> found, bbox |-> bbox,
     strings |-> FALSE]
\* The same call answering with a bbox of strings
Strings(call) == [call EXCEPT !.strings = TRUE]
\* A call whose first candidate answers (err: raises another error)
Resp(err, found, bbox) ==
    Call("ok", <<IF err THEN "error" ELSE "ok", "ok", "ok">>, TRUE, found, bbox)

\* What a run lets the surroundings do:
\*   opens      can VideoCapture open the camera
\*   detectors  can init_hands_detector build a detector
\*   resps      the locator's responses
\*   lms        the landmark lists the hand tracker sees
Env(opens, detectors, resps, lms) ==
    [opens |-> opens, detectors |-> detectors, resps |-> resps, lms |-> lms]

\* Lifecycle runs: the target is found, no hand or a hand left of the box
LifeEnv ==
    Env(BOOLEAN, {TRUE}, {Resp(FALSE, TRUE, GoodBox)},
        {<<>>, <<<<56, 100>>, <<64, 100>>>>})

\* Gate runs: the remote call raises, finds nothing, finds the box, or
\* returns a box of no width; the encoding fails or raises; every candidate
\* is refused; the second candidate raises or answers; the answer cannot be
\* decoded.  No hand, a hand at the box centre, a hand left of it.
AllOk == <<"ok", "ok", "ok">>
GateEnv ==
    Env(BOOLEAN, BOOLEAN,
        {Resp(TRUE, FALSE, <<>>), Resp(FALSE, FALSE, <<0, 0, 0, 0>>),
         Resp(FALSE, TRUE, GoodBox), Resp(FALSE, TRUE, <<80, 80, 80, 120>>),
         Call("fails", AllOk, TRUE, TRUE, GoodBox),
         Call("raises", AllOk, TRUE, TRUE, GoodBox),
         Call("ok", <<"validation", "validation", "validation">>, TRUE, TRUE, GoodBox),
         Call("ok", <<"validation", "error", "ok">>, TRUE, TRUE, GoodBox),
         Call("ok", <<"validation", "ok", "ok">>, TRUE, TRUE, GoodBox),
         Call("ok", AllOk, FALSE, TRUE, GoodBox)},
        {<<>>, <<<<100, 100>>>>, <<<<56, 100>>, <<64, 100>>>>})

\* Locator runs: every course of the candidate loop, answers that cannot
\* be decoded, say 'not found', hold a bbox of three entries, of no width,
\* of no height, reversed, reaching outside the frame, or of strings; no
\* hand or a hand at the box centre
Outcomes == {"ok", "validation", "error"}
WideBox == <<160, 80, 280, 120>>        \* [0.80, 0.40, 1.40, 0.60]
LocatorEnv ==
    Env({TRUE}, {TRUE},
        {Call("ok", <<a, b, c>>, TRUE, TRUE, GoodBox) : a \in Outcomes, b \in Outcomes, c \in Outcomes}
        \cup {Call("ok", AllOk, FALSE, TRUE, GoodBox)}
        \cup {Call("ok", AllOk, TRUE, found, box) :
                 found \in BOOLEAN,
                 box \in {<<0, 0, 0, 0>>, <<80, 80, 120>>, <<80, 80, 80, 120>>,
                          <<80, 80, 120, 80>>, <<120, 120, 80, 80>>, GoodBox, WideBox}}
        \cup {Strings(Call("ok", AllOk, TRUE, TRUE, box)) :
                 box \in {GoodBox, <<80, 80, 80, 120>>}},
        {<<>>, <<<<100, 100>>>>})

\* Phrase runs: hands all around the target, at offsets on both sides of
\* the two thresholds
Offsets == {-30, -28, -14, -12, 0, 12, 14, 28, 30}
PhraseEnv ==
    Env({TRUE}, {TRUE},
        {Resp(FALSE, FALSE, <<0, 0, 0, 0>>), Resp(FALSE, TRUE, GoodBox)},
        {<<>>} \cup {<<<<100 - dx, 100 - dy>>>> : dx \in Offsets, dy \in Offsets})

\* Scans: the names the item detection can report, and its results
ItemNames == {"milk", "rice", "tea"}
Detections ==
    UNION {[names -> 0..MaxCount] : names \in SUBSET ItemNames}

\* The item each handler's 'assist' message names
Item(h) == IF h = "h1" THEN "milk" ELSE "rice"

----------------------------------------------------------------------------
(* Initial state: the module is loaded, the server runs, no assist yet *)

\* No inventory file, or {} in it
EmptyInventory == [name \in {} |-> 0]
NoCommand == [cmd |-> "none", captured |-> FALSE, detected |-> FALSE, items |-> EmptyInventory]

NoFire == [target |-> FALSE, snapshot |-> FALSE, guidance |-> FALSE]
NoCount == [polls |-> 0, snaps |-> 0, utts |-> 0]
\*   polled   <<the locator call>> the iteration made, <<>> without one
\*   invoked  the invoke_model calls of that locator call
\*   seen     the landmarks in the iteration's frame
\*   hadHand  hand_center held a hand when the iteration began
\*   shot     <<box, hand>> drawn on the snapshot the iteration wrote
\*   spoken   the speak() calls of the iteration that had a text to say
\*   raised   where the exception that ended the iteration came from
NoTrace ==
    [polled |-> <<>>, invoked |-> 0, seen |-> <<>>, hadHand |-> FALSE, shot |-> <<>>,
     spoken |-> 0, raised |-> ""]

Init ==
    /\ clock = Epoch
    /\ ASSIST_STOP = FALSE
    /\ ASSIST_THREAD = 0
    /\ nthreads = 0
    /\ hpc = [h \in Handlers |-> "idle"]
    /\ htarget = [h \in Handlers |-> ""]
    /\ hreply = [h \in Handlers |-> "none"]
    /\ overlap = [h \in Handlers |-> FALSE]
    /\ superseded = {}
    /\ lpc = [t \in Threads |-> "none"]
    /\ tname = [t \in Threads |-> ""]
    /\ cam = [t \in Threads |-> "none"]
    /\ hands = [t \in Threads |-> FALSE]
    /\ last_target_time = [t \in Threads |-> 0]
    /\ last_guidance_time = [t \in Threads |-> 0]
    /\ last_snapshot_time = [t \in Threads |-> 0]
    /\ target_center = [t \in Threads |-> None]
    /\ target_bbox = [t \in Threads |-> None]
    /\ hand_center = [t \in Threads |-> None]
    /\ fired = [t \in Threads |-> NoFire]
    /\ trace = [t \in Threads |-> NoTrace]
    /\ said = [t \in Threads |-> <<>>]
    /\ afterStop = [t \in Threads |-> NoCount]
    /\ inventory = EmptyInventory
    /\ command = NoCommand

Inc(n) == IF n < 2 THEN n + 1 ELSE n
\* counts an event of thread t made while the flag is set
Count(c, field, happened) ==
    IF happened /\ ASSIST_STOP THEN [c EXCEPT ![field] = Inc(@)] ELSE c

----------------------------------------------------------------------------
(* Session lifecycle: the webhook's 'assist <item>' and 'stop' branches *)

\* stop_assist flipping the flag instead of setting it
stop_assist_toggle == ASSIST_STOP' = ~ASSIST_STOP

\* stop_assist(): ASSIST_STOP.set()
stop_assist == ASSIST_STOP' = TRUE

InStart(h) == hpc[h] # "idle"

\* 'assist <item>': the handler enters start_assist and runs its first
\* statement, stop_assist().  limit bounds the Thread objects of the run.
\* (The server is started by main() after it has set ASSIST_CLIENT, so the
\* 'Assist mode not ready' branch is not taken.)
WebhookAssist(h, item, limit) ==
    /\ hpc[h] = "idle"
    /\ nthreads + Cardinality({g \in Handlers : hpc[g] \in {"clear", "create"}}) < limit
    /\ stop_assist
    /\ hpc' = [hpc EXCEPT ![h] = "clear"]
    /\ htarget' = [htarget EXCEPT ![h] = item]
    /\ hreply' = [hreply EXCEPT ![h] = "none"]
    /\ overlap' = [g \in Handlers |->
                     IF g = h THEN \E k \in Handlers \ {h} : InStart(k)
                     ELSE overlap[g] \/ InStart(g)]
    /\ superseded' = superseded \cup {t \in Threads : lpc[t] \in {"begin", "while", "read", "sleep", "body"}}
    /\ UNCHANGED <<pantryVars, clock, ASSIST_THREAD, nthreads, loopVars, afterStop>>

\* start_assist also resetting the guidance timers
StartClear_resets_gates(h) ==
    /\ hpc[h] = "clear"
    /\ ASSIST_STOP' = FALSE
    /\ afterStop' = [t \in Threads |-> NoCount]
    /\ hpc' = [hpc EXCEPT ![h] = "create"]
    /\ last_guidance_time' = [t \in Threads |-> 0]
    /\ UNCHANGED <<pantryVars, clock, ASSIST_THREAD, nthreads, htarget, hreply, overlap, superseded,
                   lpc, tname, cam, hands, last_target_time, last_snapshot_time,
                   target_center, target_bbox, hand_center, fired, trace, said>>

\* start_assist: ASSIST_STOP.clear()
StartClear(h) ==
    /\ hpc[h] = "clear"
    /\ ASSIST_STOP' = FALSE
    /\ afterStop' = [t \in Threads |-> NoCount]
    /\ hpc' = [hpc EXCEPT ![h] = "create"]
    /\ UNCHANGED <<pantryVars, clock, ASSIST_THREAD, nthreads, htarget, hreply, overlap, superseded, loopVars>>

\* start_assist: ASSIST_THREAD = threading.Thread(target=assist_loop, ...)
StartCreate(h) ==
    /\ hpc[h] = "create"
    /\ nthreads' = nthreads + 1
    /\ ASSIST_THREAD' = nthreads + 1
    /\ lpc' = [lpc EXCEPT ![nthreads + 1] = "new"]
    /\ tname' = [tname EXCEPT ![nthreads + 1] = htarget[h]]
    /\ hpc' = [hpc EXCEPT ![h] = "start"]
    /\ UNCHANGED <<pantryVars, clock, ASSIST_STOP, htarget, hreply, overlap, superseded, cam, hands,
                   last_target_time, last_guidance_time, last_snapshot_time,
                   target_center, target_bbox, hand_center, fired, trace, said, afterStop>>

\* start_assist: ASSIST_THREAD.start(), on whatever thread the global names
\* now; starting a started thread raises RuntimeError in the handler.  Then
\* the webhook answers "Assist started for: ...".
StartThread(h) ==
    /\ hpc[h] = "start"
    /\ IF lpc[ASSIST_THREAD] = "new"
          THEN /\ lpc' = [lpc EXCEPT ![ASSIST_THREAD] = "begin"]
               /\ hreply' = [hreply EXCEPT ![h] = "started"]
          ELSE /\ lpc' = lpc
               /\ hreply' = [hreply EXCEPT ![h] = "error"]
    /\ hpc' = [hpc EXCEPT ![h] = "idle"]
    /\ UNCHANGED <<pantryVars, clock, ASSIST_STOP, ASSIST_THREAD, nthreads, htarget, overlap, superseded,
                   tname, cam, hands, last_target_time, last_guidance_time,
                   last_snapshot_time, target_center, target_bbox, hand_center,
                   fired, trace, said, afterStop>>

\* 'stop': stop_assist(), then the answer "Assist stopped."
WebhookStop(h) ==
    /\ hpc[h] = "idle"
    /\ stop_assist
    /\ hreply' = [hreply EXCEPT ![h] = "stopped"]
    /\ overlap' = [overlap EXCEPT ![h] = FALSE]
    /\ UNCHANGED <<pantryVars, clock, ASSIST_THREAD, nthreads, hpc, htarget, superseded, loopVars, afterStop>>

----------------------------------------------------------------------------
(* assist_loop *)

\* speak(text): nothing is said for an empty text
Speak(t, text) == IF text = <<>> THEN said[t] ELSE text

\* Before the loop: speak, open the camera, build the hand detector, set
\* the locals.  VideoCapture does not raise: the handle is open or unopened.
Begin(t, env) ==
    /\ lpc[t] = "begin"
    /\ said' = [said EXCEPT ![t] = Speak(t, StartedPhrase(tname[t]))]
    /\ afterStop' = [afterStop EXCEPT ![t] = Count(@, "utts", TRUE)]
    /\ \E opened \in env.opens :
          cam' = [cam EXCEPT ![t] = IF opened THEN "open" ELSE "unopened"]
    /\ \E detector \in env.detectors : hands' = [hands EXCEPT ![t] = detector]
    /\ last_target_time' = [last_target_time EXCEPT ![t] = 0]
    /\ last_guidance_time' = [last_guidance_time EXCEPT ![t] = 0]
    /\ last_snapshot_time' = [last_snapshot_time EXCEPT ![t] = 0]
    /\ target_center' = [target_center EXCEPT ![t] = None]
    /\ target_bbox' = [target_bbox EXCEPT ![t] = None]
    /\ lpc' = [lpc EXCEPT ![t] = "while"]
    /\ UNCHANGED <<pantryVars, clock, ASSIST_STOP, ASSIST_THREAD, nthreads, handlerVars,
                   tname, hand_center, fired, trace>>

\* a loop that never looks at the flag
LoopContinues_always(flag) == TRUE

\* a loop that also ends once "good position" has been said
LoopContinues_until_near(flag) ==
    ~flag /\ \A t \in Threads : said[t] # <<"good position">>

\* while not ASSIST_STOP.is_set()
LoopContinues(flag) == ~flag

While(t) ==
    /\ lpc[t] = "while"
    /\ lpc' = [lpc EXCEPT ![t] = IF LoopContinues(ASSIST_STOP) THEN "read" ELSE "release"]
    /\ UNCHANGED <<pantryVars, clock, ASSIST_STOP, ASSIST_THREAD, nthreads, handlerVars,
                   tname, cam, hands, last_target_time, last_guidance_time,
                   last_snapshot_time, target_center, target_bbox, hand_center,
                   fired, trace, said, afterStop>>

\* cam.read() without the test of ret
Read_ignores_ret(t) ==
    /\ lpc[t] = "read"
    /\ \E ret \in BOOLEAN :
          /\ cam[t] = "unopened" => ~ret
          /\ lpc' = [lpc EXCEPT ![t] = "body"]
    /\ UNCHANGED <<pantryVars, clock, ASSIST_STOP, ASSIST_THREAD, nthreads, handlerVars,
                   tname, cam, hands, last_target_time, last_guidance_time,
                   last_snapshot_time, target_center, target_bbox, hand_center,
                   fired, trace, said, afterStop>>

\* ret, frame = cam.read(); if not ret: ...
Read(t) ==
    /\ lpc[t] = "read"
    /\ \E ret \in BOOLEAN :
          /\ cam[t] = "unopened" => ~ret
          /\ lpc' = [lpc EXCEPT ![t] = IF ret THEN "body" ELSE "sleep"]
    /\ UNCHANGED <<pantryVars, clock, ASSIST_STOP, ASSIST_THREAD, nthreads, handlerVars,
                   tname, cam, hands, last_target_time, last_guidance_time,
                   last_snapshot_time, target_center, target_bbox, hand_center,
                   fired, trace, said, afterStop>>

\* ... time.sleep(0.1); continue
Sleep(t) ==
    /\ lpc[t] = "sleep"
    /\ lpc' = [lpc EXCEPT ![t] = "while"]
    /\ UNCHANGED <<pantryVars, clock, ASSIST_STOP, ASSIST_THREAD, nthreads, handlerVars,
                   tname, cam, hands, last_target_time, last_guidance_time,
                   last_snapshot_time, target_center, target_bbox, hand_center,
                   fired, trace, said, afterStop>>

\* cam.release() after the loop
Release(t) ==
    /\ lpc[t] = "release"
    /\ cam' = [cam EXCEPT ![t] = "released"]
    /\ lpc' = [lpc EXCEPT ![t] = "stopped"]
    /\ UNCHANGED <<pantryVars, clock, ASSIST_STOP, ASSIST_THREAD, nthreads, handlerVars,
                   tname, hands, last_target_time, last_guidance_time,
                   last_snapshot_time, target_center, target_bbox, hand_center,
                   fired, trace, said, afterStop>>

\* The cache assigned from the locator in every iteration
TargetCache_every_iteration(poll, fresh, cached) == fresh

\* The target gate's block: the cache after it
TargetCache(poll, fresh, cached) == IF poll THEN fresh ELSE cached

\* The last hand seen kept while no hand is detected
HandObservation_keeps_last(previous, landmarks, detector) ==
    IF get_hand_center(landmarks, detector) = None THEN previous
    ELSE get_hand_center(landmarks, detector)

\* hand_center = get_hand_center(frame, hands): assigned in every iteration
HandObservation(previous, landmarks, detector) == get_hand_center(landmarks, detector)

\* The rest of one iteration, from now = time.time() to sleep(0.05).
\*   resp       the locator call, when the target gate fires
\*   handRaises the hand tracker raises (cvtColor / process)
\*   landmarks  what the hand tracker sees in the frame
\*   recRaises  the overlay or imwrite raises, when the snapshot gate fires
\* An input is drawn only where the iteration reads it.  An exception
\* leaves assist_loop: nothing in it catches one.
Body(t, env) ==
    /\ lpc[t] = "body"
    /\ LET now == clock
           poll == GateFires(now, last_target_time[t], TargetInterval)
           snap == ASSIST_DEBUG /\ GateFires(now, last_snapshot_time[t], DEBUG_SNAPSHOT_INTERVAL_SEC)
       IN
       \E resp \in (IF poll THEN env.resps ELSE {Resp(TRUE, FALSE, <<>>)}) :
        LET target == detect_target_bbox_with_bedrock(resp)
            \* (x_min + x_max) / 2 on strings raises TypeError
            centerRaises == poll /\ target \notin {None, Raised} /\ resp.strings
            pollRaises == (poll /\ target = Raised) \/ centerRaises
        IN
        \E handRaises \in (IF hands[t] /\ ~pollRaises THEN BOOLEAN ELSE {FALSE}) :
        \E landmarks \in (IF hands[t] /\ ~pollRaises /\ ~handRaises THEN env.lms ELSE {<<>>}),
           recRaises \in (IF snap /\ ~pollRaises /\ ~handRaises THEN BOOLEAN ELSE {FALSE}) :
        LET polled == poll /\ ~pollRaises
            found == polled /\ target # None
            tc == TargetCache(polled, IF found THEN Center(target) ELSE None,
                              target_center[t])
            tb == TargetCache(polled, IF found THEN target ELSE None,
                              target_bbox[t])
            ltt == IF polled THEN now ELSE last_target_time[t]
            hc == IF pollRaises \/ handRaises THEN hand_center[t]
                  ELSE HandObservation(hand_center[t], landmarks, hands[t])
            crash == pollRaises \/ handRaises \/ recRaises
            snapDone == snap /\ ~crash
            guide == ~crash /\ GateFires(now, last_guidance_time[t], GuidanceInterval)
            calls == IF guide THEN GuidanceCalls(tc, hc, tname[t]) ELSE <<>>
            texts == SelectSeq(calls, LAMBDA text : text # <<>>)
        IN  /\ target_center' = [target_center EXCEPT ![t] = tc]
            /\ target_bbox' = [target_bbox EXCEPT ![t] = tb]
            /\ last_target_time' = [last_target_time EXCEPT ![t] = ltt]
            /\ hand_center' = [hand_center EXCEPT ![t] = hc]
            /\ last_snapshot_time' = [last_snapshot_time EXCEPT ![t] = IF snapDone THEN now ELSE @]
            /\ last_guidance_time' = [last_guidance_time EXCEPT ![t] = IF guide THEN now ELSE @]
            /\ said' = [said EXCEPT ![t] =
                            IF calls # <<>> THEN Speak(t, calls[Len(calls)]) ELSE @]
            /\ fired' = [fired EXCEPT ![t] =
                            [target |-> poll, snapshot |-> snapDone, guidance |-> guide]]
            /\ trace' = [trace EXCEPT ![t] =
                            [polled |-> IF poll THEN <<resp>> ELSE <<>>,
                             invoked |-> IF poll /\ resp.enc = "ok"
                                            THEN InvokeFrom(resp.tries, 1).invoked ELSE 0,
                             seen |-> landmarks,
                             hadHand |-> hand_center[t] # None,
                             shot |-> IF snapDone THEN <<tb, hc>> ELSE <<>>,
                             spoken |-> Len(texts),
                             raised |-> IF centerRaises THEN "center"
                                        ELSE IF pollRaises THEN "locator"
                                        ELSE IF handRaises THEN "hand"
                                        ELSE IF recRaises THEN "recorder" ELSE ""]]
            /\ afterStop' = [afterStop EXCEPT ![t] =
                                Count(Count(Count(@, "polls", poll), "snaps", snapDone),
                                      "utts", texts # <<>>)]
            /\ lpc' = [lpc EXCEPT ![t] = IF crash THEN "crashed" ELSE "while"]
    /\ UNCHANGED <<pantryVars, clock, ASSIST_STOP, ASSIST_THREAD, nthreads, handlerVars,
                   tname, cam, hands>>

\* Time passes
Tick(limit) ==
    /\ clock < limit
    /\ clock' = clock + 1
    /\ UNCHANGED <<pantryVars, ASSIST_STOP, ASSIST_THREAD, nthreads, handlerVars, loopVars, afterStop>>

----------------------------------------------------------------------------
(* Console commands on the stored inventory *)

\* process_scan storing what was detected and nothing else
new_inventory_detected_only(old_inventory, detected_inventory) == detected_inventory

\* process_scan: every item of the old inventory at zero, then the detected
\* counts over them
new_inventory(old_inventory, detected_inventory) ==
    [item \in DOMAIN old_inventory \cup DOMAIN detected_inventory |->
        IF item \in DOMAIN detected_inventory THEN detected_inventory[item] ELSE 0]

\* The console command 'scan' (or ENTER): process_scan from load_inventory
\* to save_inventory.  captured: capture_snapshot returned a frame;
\* detected: detect_items_with_bedrock returned a dict, items.  The command
\* loop runs one command at a time.
process_scan ==
    /\ \E captured \in BOOLEAN, detected \in BOOLEAN :
       \E items \in (IF captured /\ detected THEN Detections ELSE {EmptyInventory}) :
          /\ inventory' = IF captured /\ detected THEN new_inventory(inventory, items)
                          ELSE inventory
          /\ command' = [cmd |-> "scan", captured |-> captured,
                         detected |-> captured /\ detected, items |-> items]
    /\ UNCHANGED <<clock, ASSIST_STOP, ASSIST_THREAD, nthreads, handlerVars, loopVars, afterStop>>

\* The console command 'reset': save_inventory({})
Reset ==
    /\ inventory' = EmptyInventory
    /\ command' = [NoCommand EXCEPT !.cmd = "reset"]
    /\ UNCHANGED <<clock, ASSIST_STOP, ASSIST_THREAD, nthreads, handlerVars, loopVars, afterStop>>

----------------------------------------------------------------------------
(* Specifications *)

LoopStep(t, env) ==
    \/ Begin(t, env)
    \/ While(t)
    \/ Read(t)
    \/ Sleep(t)
    \/ Release(t)
    \/ Body(t, env)

\* Lifecycle: both webhook handlers, every thread they create
Next ==
    \/ \E h \in Handlers : WebhookAssist(h, Item(h), MaxThreads)
    \/ \E h \in Handlers : StartClear(h)
    \/ \E h \in Handlers : StartCreate(h)
    \/ \E h \in Handlers : StartThread(h)
    \/ \E h \in Handlers : WebhookStop(h)
    \/ \E t \in Threads : LoopStep(t, LifeEnv)
    \/ Tick(Epoch + MaxTicks)

Spec == Init /\ [][Next]_vars

\* The same, with every started loop thread scheduled again and again
FairSpec == Spec /\ \A t \in Threads : WF_vars(LoopStep(t, LifeEnv))

\* A single session: one handler, one 'assist', any number of 'stop', over
\* a longer time
GateNext ==
    \/ \E item \in {"milk", "rice"} : WebhookAssist("h1", item, 1)
    \/ StartClear("h1")
    \/ StartCreate("h1")
    \/ StartThread("h1")
    \/ WebhookStop("h1")
    \/ \E t \in Threads : LoopStep(t, GateEnv)
    \/ Tick(Epoch + MaxGateTicks)

GateSpec == Init /\ [][GateNext]_vars

\* A single session, hands all around the target
PhraseNext ==
    \/ WebhookAssist("h1", Item("h1"), 1)
    \/ StartClear("h1")
    \/ StartCreate("h1")
    \/ StartThread("h1")
    \/ WebhookStop("h1")
    \/ \E t \in Threads : LoopStep(t, PhraseEnv)
    \/ Tick(Epoch + MaxTicks)

PhraseSpec == Init /\ [][PhraseNext]_vars

\* Two sessions one after the other: one handler, 'assist' twice, any
\* number of 'stop'
PairNext ==
    \/ \E item \in {"milk", "rice"} : WebhookAssist("h1", item, 2)
    \/ StartClear("h1")
    \/ StartCreate("h1")
    \/ StartThread("h1")
    \/ WebhookStop("h1")
    \/ \E t \in Threads : LoopStep(t, LifeEnv)
    \/ Tick(Epoch + MaxTicks)

PairSpec == Init /\ [][PairNext]_vars

\* A single session, the locator answering in every way
LocatorNext ==
    \/ WebhookAssist("h1", Item("h1"), 1)
    \/ StartClear("h1")
    \/ StartCreate("h1")
    \/ StartThread("h1")
    \/ WebhookStop("h1")
    \/ \E t \in Threads : LoopStep(t, LocatorEnv)
    \/ Tick(Epoch + MaxTicks)

LocatorSpec == Init /\ [][LocatorNext]_vars

\* The console: scans and resets, one after the other
ScanNext ==
    \/ process_scan
    \/ Reset

ScanSpec == Init /\ [][ScanNext]_vars

----------------------------------------------------------------------------
(* Properties *)

Live(t) == lpc[t] \in {"begin", "while", "read", "sleep", "body", "release"}
Iterating(t) == lpc[t] \in {"while", "read", "sleep", "body"}
Ended(t) == lpc[t] \in {"stopped", "crashed"}

\* C1: at most one assist loop holds an open camera handle at any time; a
\* second start launches its loop only after the first loop has released
\* its camera.
C1_OneCameraHolder ==
    Cardinality({t \in Threads : Live(t) /\ cam[t] = "open"}) <= 1

\* C2: a loop that was running when a start requested its cancellation
\* eventually leaves the running state, though that start clears the flag
\* for the new session.  A loop ended by an exception counts as having
\* left it.
C2_CancellationNotLost ==
    \A t \in Threads : (t \in superseded) ~> Ended(t)

\* C3: after two start calls that overlapped in time have both returned
\* normally, exactly one loop is left running (no loop having ended by an
\* exception).
C3_OneSessionAfterConcurrentStarts ==
    ( /\ \A h \in Handlers : hpc[h] = "idle" /\ hreply[h] = "started" /\ overlap[h]
      /\ \A t \in Threads : lpc[t] # "crashed" )
    => Cardinality({t \in Threads : Live(t)}) = 1

\* C4: from the moment the cancellation flag is set and for as long as it
\* stays set, a loop thread makes at most one more target poll, one more
\* snapshot and one more utterance: what is left of its current
\* iteration, and nothing after its next test of the flag.
C4_OneIterationAfterStop ==
    \A t \in Threads :
        /\ afterStop[t].polls <= 1
        /\ afterStop[t].snaps <= 1
        /\ afterStop[t].utts <= 1

C4_Witness ==
    \E t \in Threads :
        /\ ASSIST_STOP
        /\ lpc[t] = "stopped"
        /\ fired[t].target /\ fired[t].snapshot /\ fired[t].guidance
        /\ afterStop[t].polls = 1 /\ afterStop[t].snaps = 1 /\ afterStop[t].utts = 1
        /\ last_target_time[t] > Epoch + TargetInterval

\* C5: every loop thread that has terminated, by cancellation or by an
\* exception, has released its camera.
C5_TerminatedReleased ==
    \A t \in Threads : Ended(t) => cam[t] = "released"

\* C6: stop can be called whenever a handler is free, whatever the loops
\* are doing; it sets the flag and changes no loop, no camera and not the
\* thread reference; called again right after a stop it changes nothing.
C6_StopIdempotentNonBlocking ==
    /\ [](\A h \in Handlers : hpc[h] = "idle" => ENABLED WebhookStop(h))
    /\ [][\A h \in Handlers :
            WebhookStop(h) =>
                /\ ASSIST_STOP'
                /\ lpc' = lpc /\ cam' = cam
                /\ ASSIST_THREAD' = ASSIST_THREAD
                /\ (ASSIST_STOP /\ hreply[h] = "stopped") => UNCHANGED vars]_vars

C6_Witness ==
    /\ hreply["h1"] = "stopped"
    /\ ASSIST_STOP
    /\ \E t \in Threads : lpc[t] = "body" /\ cam[t] = "open"

\* The claim's table for the two axes, in 1/200; "" stands for no phrase
ClaimX(d) ==
    IF d > 28 THEN "move right more"
    ELSE IF d > 12 THEN "move right a bit"
    ELSE IF d < -28 THEN "move left more"
    ELSE IF d < -12 THEN "move left a bit"
    ELSE ""

ClaimY(d) ==
    IF d > 28 THEN "move down more"
    ELSE IF d > 12 THEN "move down a bit"
    ELSE IF d < -28 THEN "move up more"
    ELSE IF d < -12 THEN "move up a bit"
    ELSE ""

XWords == {"move right more", "move right a bit", "move left more", "move left a bit"}
YWords == {"move down more", "move down a bit", "move up more", "move up a bit"}
Pieces(u) == {u[i] : i \in 1..Len(u)}

\* The thread's last iteration spoke a phrase of guidance_phrase
Guided(t) == fired[t].guidance /\ target_bbox[t] # None /\ hand_center[t] # None
ClaimDx(t) == (target_bbox[t][1] + target_bbox[t][3]) \div 2 - hand_center[t][1]
ClaimDy(t) == (target_bbox[t][2] + target_bbox[t][4]) \div 2 - hand_center[t][2]

\* C7: with dx the box midpoint minus the hand, the spoken phrase holds
\* 'move right more' for dx > 0.14, 'move right a bit' for
\* 0.06 < dx <= 0.14, 'move left more' for dx < -0.14, 'move left a bit'
\* for -0.14 <= dx < -0.06 and no x-phrase for |dx| <= 0.06; the same for
\* dy with down / up, whatever dx is.
C7_AxisPhrases ==
    \A t \in Threads :
        Guided(t) =>
            /\ Pieces(said[t]) \cap XWords =
                 {ClaimX(ClaimDx(t))} \ {""}
            /\ Pieces(said[t]) \cap YWords =
                 {ClaimY(ClaimDy(t))} \ {""}

C7_Witness ==
    \E t \in Threads :
        /\ Guided(t)
        /\ ClaimDx(t) = 28 /\ ClaimDy(t) = -12
        /\ said[t] = <<"move right a bit">>

Abs(n) == IF n < 0 THEN -n ELSE n

\* C8: the phrase is 'good position' exactly when |dx| <= 0.06 and
\* |dy| <= 0.06; otherwise it is the x-phrase, the y-phrase, or the
\* x-phrase, ' and ', the y-phrase, and never empty.
C8_GoodPositionOrJoined ==
    \A t \in Threads :
        Guided(t) =>
            /\ said[t] # <<>>
            /\ said[t] = <<"good position">>
                 <=> (Abs(ClaimDx(t)) <= 12 /\ Abs(ClaimDy(t)) <= 12)
            /\ said[t] # <<"good position">> =>
                 \/ Len(said[t]) = 1 /\ said[t][1] \in XWords \cup YWords
                 \/ /\ Len(said[t]) = 3
                    /\ said[t][1] \in XWords
                    /\ said[t][2] = " and "
                    /\ said[t][3] \in YWords

C8_Witness ==
    \E t \in Threads :
        /\ Guided(t)
        /\ said[t] = <<"move left more", " and ", "move down a bit">>

\* C9: when the guidance gate fires and the cached target is 'not found',
\* the utterance is the target-lost phrase, with or without a hand.
C9_TargetLost ==
    \A t \in Threads :
        (fired[t].guidance /\ target_center[t] = <<>>)
            => said[t] = <<"I cannot see ", tname[t]>>

C9_Witness ==
    \E t \in Threads :
        /\ fired[t].guidance /\ target_center[t] = <<>> /\ hand_center[t] # <<>>
        /\ said[t] = <<"I cannot see ", tname[t]>>

\* C10: when the guidance gate fires with a cached target and no hand in
\* the frame, the utterance is the hand-lost phrase and nothing else.
C10_HandLost ==
    \A t \in Threads :
        (fired[t].guidance /\ target_center[t] # <<>> /\ hand_center[t] = <<>>)
            => said[t] = <<"I cannot see your hand">>

C10_Witness ==
    \E t \in Threads :
        /\ fired[t].guidance /\ target_center[t] # <<>> /\ hand_center[t] = <<>>
        /\ ~fired[t].target
        /\ said[t] = <<"I cannot see your hand">>

----------------------------------------------------------------------------
(* C11: one utterance per firing of the guidance gate *)

\* The three classes of an utterance of the guidance gate
Directional(text) ==
    \/ text = <<"good position">>
    \/ Len(text) = 1 /\ text[1] \in XWords \cup YWords
    \/ Len(text) = 3 /\ text[1] \in XWords /\ text[2] = " and " /\ text[3] \in YWords
TargetLost(text, name) == text = <<"I cannot see ", name>>
HandLost(text) == text = <<"I cannot see your hand">>
ClassesOf(text, name) ==
    {k \in 1..3 : \/ k = 1 /\ Directional(text)
                  \/ k = 2 /\ TargetLost(text, name)
                  \/ k = 3 /\ HandLost(text)}

\* C11: an iteration in which the guidance gate fired has made exactly one
\* speak() call with a text, and that text belongs to exactly one of the
\* three classes: directional when target and hand are both present,
\* target-lost when the target is absent (hand present or not), hand-lost
\* when only the hand is absent.
C11_ExactlyOneUtterance ==
    \A t \in Threads :
        fired[t].guidance =>
            /\ trace[t].spoken = 1
            /\ ClassesOf(said[t], tname[t]) =
                 IF target_center[t] # <<>> /\ hand_center[t] # <<>> THEN {1}
                 ELSE IF target_center[t] = <<>> THEN {2}
                 ELSE {3}

\* the gate fired with neither the target nor the hand present
C11_Witness ==
    \E t \in Threads :
        /\ fired[t].guidance
        /\ target_center[t] = <<>> /\ hand_center[t] = <<>>
        /\ trace[t].spoken = 1
        /\ said[t] = <<"I cannot see ", tname[t]>>

----------------------------------------------------------------------------
(* C12: spacing of the three gates *)

\* An iteration of thread t that got a frame has run in this step
Iterated(t) == lpc[t] = "body" /\ lpc'[t] # "body"

\* The first iteration with a frame (no gate has fired yet: the target
\* gate is the first statement after the clock is read) fires all three
\* gates and stamps them with the clock reading of the iteration
FirstFiring(t) ==
    (Iterated(t) /\ last_target_time[t] = 0) =>
        /\ last_target_time'[t] = clock
        /\ last_guidance_time'[t] = clock
        /\ last_snapshot_time'[t] = clock

\* A gate that fires again does so at least its interval after its last
\* firing, and is stamped with the clock reading
Spaced(old, new, interval) ==
    (new # old /\ old # 0) => new = clock /\ new - old >= interval
Spacing(t) ==
    /\ Spaced(last_target_time[t], last_target_time'[t], 5)
    /\ Spaced(last_guidance_time[t], last_guidance_time'[t], 2)
    /\ Spaced(last_snapshot_time[t], last_snapshot_time'[t], 6)

\* C12: each of the three gates (target poll 2.5 s, guidance 1.0 s, debug
\* snapshot 3 s) fires in the first iteration that gets a frame, takes that
\* iteration's clock reading as its last firing, and never fires twice
\* less than its interval apart.
C12_RateGates == [][\A t \in Threads : FirstFiring(t) /\ Spacing(t)]_vars

----------------------------------------------------------------------------
(* C13: a camera that does not open *)

\* C13: when the camera cannot be opened at session start, the start
\* fails: no loop runs against the unopened camera, and the caller of
\* start is not told that the session started.
C13_OpenFailureSurfaced ==
    \A t \in Threads :
        cam[t] = "unopened" =>
            /\ lpc[t] \notin {"while", "read", "sleep", "body"}
            /\ \A h \in Handlers : htarget[h] = tname[t] => hreply[h] # "started"

----------------------------------------------------------------------------
(* C14: how long guidance is repeated *)

----------------------------------------------------------------------------
(* C15: who writes what *)

\* The perception and gate variables of one session
Perception(t) ==
    <<target_center[t], target_bbox[t], hand_center[t],
      last_target_time[t], last_guidance_time[t], last_snapshot_time[t]>>

\* C15: a step of the command context (start, stop: a step that changes
\* the handler's position or reply, the cancellation flag or the active
\* session reference) leaves every session's cached target centre and box,
\* hand centre and three last-fired timestamps as they are; these change
\* only in a step of that session's own loop, which in turn leaves the
\* flag, the reference and every other session's variables alone.
C15_WritersOfSessionState ==
    [][/\ (hpc' # hpc \/ hreply' # hreply \/ ASSIST_STOP' # ASSIST_STOP
                \/ ASSIST_THREAD' # ASSIST_THREAD) =>
            \A t \in Threads : Perception(t)' = Perception(t)
       /\ \A t \in Threads :
            Perception(t)' # Perception(t) =>
                /\ lpc[t] \in {"begin", "body"} /\ lpc'[t] # lpc[t]
                /\ \A u \in Threads \ {t} :
                      Perception(u)' = Perception(u) /\ lpc'[u] = lpc[u]]_vars

\* a session that has polled, spoken and seen a hand is running while the
\* command context is inside the next start
C15_Witness ==
    \E t \in Threads :
        /\ hpc["h1"] = "create"
        /\ lpc[t] \in {"while", "read", "sleep", "body"}
        /\ last_guidance_time[t] # 0 /\ target_center[t] # <<>> /\ hand_center[t] # <<>>

----------------------------------------------------------------------------
(* C16: the cached target between polls *)

\* A locator call that answers with a usable box
Answered(tries) ==
    \E i \in 1..3 : tries[i] = "ok" /\ \A j \in 1..(i - 1) : tries[j] = "validation"
ReturnsFound(call) ==
    /\ call.enc = "ok" /\ Answered(call.tries) /\ call.parsed /\ call.found
    /\ Len(call.bbox) = 4
    /\ call.bbox[3] > call.bbox[1] /\ call.bbox[4] > call.bbox[2]

\* The utterance text of a firing of the guidance gate, given the target
\* centre and the hand centre it used
SaysFor(text, tc, hc, name) ==
    IF tc = <<>> THEN TargetLost(text, name)
    ELSE IF hc = <<>> THEN HandLost(text)
    ELSE /\ Directional(text)
         /\ Pieces(text) \cap XWords = {ClaimX(tc[1] - hc[1])} \ {""}
         /\ Pieces(text) \cap YWords = {ClaimY(tc[2] - hc[2])} \ {""}

\* C16: the cached target centre and box change only in an iteration whose
\* target gate fired and polled the locator; an iteration without a poll
\* guides from the centre cached before it; and a cached target becomes
\* 'not found' only in an iteration whose poll returned 'not found'.
C16_CacheChangesOnlyOnPoll ==
    [][\A t \in Threads :
          /\ (target_center'[t] # target_center[t] \/ target_bbox'[t] # target_bbox[t]) =>
                Iterated(t) /\ fired'[t].target /\ trace'[t].polled # <<>>
          /\ (Iterated(t) /\ fired'[t].guidance /\ ~fired'[t].target) =>
                SaysFor(said'[t], target_center[t], hand_center'[t], tname[t])
          /\ (target_center[t] # <<>> /\ target_center'[t] = <<>>) =>
                ~ReturnsFound(trace'[t].polled[1])]_vars

\* an iteration without a poll has guided from the box of the last poll
C16_Witness ==
    \E t \in Threads :
        /\ fired[t].guidance /\ ~fired[t].target
        /\ target_bbox[t] = <<80, 80, 120, 120>> /\ target_center[t] = <<100, 100>>
        /\ said[t] = <<"move right more">>

----------------------------------------------------------------------------
(* C17: the hand observation of the iteration *)

\* The landmarks of the iteration's frame show a hand around (x, y)
Around(seen, p) ==
    /\ \E i \in 1..Len(seen) : seen[i][1] <= p[1]
    /\ \E i \in 1..Len(seen) : seen[i][1] >= p[1]
    /\ \E i \in 1..Len(seen) : seen[i][2] <= p[2]
    /\ \E i \in 1..Len(seen) : seen[i][2] >= p[2]

\* C17: after an iteration that ran to its end, hand_center is the
\* observation of that iteration's frame: 'not found' when the frame shows
\* no hand (whatever was seen before) or there is no detector, a point
\* among the frame's landmarks otherwise; the utterance of the iteration
\* and the snapshot of the iteration use that observation.
C17_HandOfThisFrame ==
    \A t \in Threads :
        (lpc[t] # "none" /\ trace[t].raised = "") =>
            /\ (trace[t].seen = <<>> \/ ~hands[t]) => hand_center[t] = <<>>
            /\ (trace[t].seen # <<>> /\ hands[t]) =>
                  hand_center[t] # <<>> /\ Around(trace[t].seen, hand_center[t])
            /\ fired[t].guidance =>
                  SaysFor(said[t], target_center[t], hand_center[t], tname[t])
            /\ trace[t].shot # <<>> => trace[t].shot[2] = hand_center[t]

\* a hand was seen before the iteration and is not in its frame: the
\* snapshot shows no hand and the utterance is 'I cannot see your hand'
C17_Witness ==
    \E t \in Threads :
        /\ trace[t].hadHand /\ hands[t] /\ trace[t].seen = <<>>
        /\ hand_center[t] = <<>>
        /\ trace[t].shot # <<>> /\ trace[t].shot[2] = <<>>
        /\ fired[t].guidance /\ said[t] = <<"I cannot see your hand">>

----------------------------------------------------------------------------
(* C18: the three gates do not influence each other *)

\* One gate in one iteration: it fires exactly when the clock reading is
\* more than its interval after its own last firing, and its timestamp
\* changes, to the clock reading, exactly when it fires
OwnGate(gateFired, old, new, interval) ==
    /\ gateFired <=> clock - old > interval
    /\ new = IF gateFired THEN clock ELSE old

\* C18: in every iteration that got a frame, each gate fires or not by its
\* own timestamp and the iteration's clock reading alone, whether or not
\* another gate fired, and a firing changes that gate's timestamp only.
C18_GatesIndependent ==
    [][\A t \in Threads :
          Iterated(t) =>
            /\ OwnGate(fired'[t].target, last_target_time[t], last_target_time'[t], 5)
            /\ OwnGate(fired'[t].snapshot, last_snapshot_time[t], last_snapshot_time'[t], 6)
            /\ OwnGate(fired'[t].guidance, last_guidance_time[t], last_guidance_time'[t], 2)]_vars

----------------------------------------------------------------------------
(* C19: an iteration without a frame *)

\* C19: a cam.read() that fails (always, on a camera that did not open)
\* ends the iteration there: the loop pauses and is back at its test of
\* the cancellation flag, and the cached target, the hand, the three
\* timestamps, the gates fired and the last utterance are what they were:
\* no poll, no hand tracking, no snapshot, no utterance.
C19_NoFrameNoIteration ==
    [][\A t \in Threads :
          /\ (lpc[t] = "read" /\ cam[t] = "unopened") => lpc'[t] \in {"read", "sleep"}
          /\ (lpc[t] = "read" /\ lpc'[t] # "body") => lpc'[t] \in {"read", "sleep"}
          /\ lpc[t] = "sleep" => lpc'[t] \in {"sleep", "while"}
          /\ (lpc[t] \in {"read", "sleep"} /\ lpc'[t] # "body") =>
                /\ Perception(t)' = Perception(t)
                /\ fired'[t] = fired[t] /\ said'[t] = said[t]
                /\ trace'[t] = trace[t]]_vars

\* a running session has lost a frame while its guidance gate was due and a
\* stop was pending: nothing was said, and the loop is on its way to the
\* test of the flag
C19_Witness ==
    \E t \in Threads :
        /\ lpc[t] = "sleep" /\ cam[t] = "open" /\ ASSIST_STOP
        /\ last_guidance_time[t] # 0 /\ clock - last_guidance_time[t] > 2
        /\ afterStop[t].utts = 0

----------------------------------------------------------------------------
(* C20: a poll that fails *)

\* C20: an iteration whose poll of the locator fails in any way (the
\* image cannot be encoded, the remote call raises, every candidate is
\* refused, the answer cannot be decoded, nothing usable is found) ends
\* with the cached target 'not found' and the target gate stamped with the
\* iteration's clock reading, and the failure does not end the loop.
C20_FailedPollIsNotFound ==
    [][\A t \in Threads :
          (Iterated(t) /\ trace'[t].polled # <<>>
                /\ ~ReturnsFound(trace'[t].polled[1])) =>
            /\ target_center'[t] = <<>> /\ target_bbox'[t] = <<>>
            /\ last_target_time'[t] = clock
            /\ trace'[t].raised # "locator"]_vars

----------------------------------------------------------------------------
(* C21: the candidate models of the locator *)

\* C21: in a poll whose image was encoded, the candidates are invoked in
\* list order, at least one and at most three; every candidate before the
\* last one invoked was refused with a validation error, and a candidate
\* refused that way is the last one invoked only at the end of the list;
\* the search stops at the first answer, which is the one used; any other
\* error, and a list refused to its end, give 'not found'.
C21_CandidateFallback ==
    \A t \in Threads :
        (trace[t].polled # <<>> /\ trace[t].polled[1].enc = "ok") =>
            LET call == trace[t].polled[1]
                n == trace[t].invoked
            IN  /\ n \in 1..3
                /\ \A j \in 1..(n - 1) : call.tries[j] = "validation"
                /\ call.tries[n] = "validation" => n = 3
                /\ call.tries[n] # "ok" => target_center[t] = <<>> /\ target_bbox[t] = <<>>
                /\ (call.tries[n] = "ok" /\ ReturnsFound(call) /\ ~call.strings) =>
                      target_bbox[t] = call.bbox

\* the first candidate was refused, the second failed otherwise: the third
\* was not invoked although it would have answered, and nothing is found
C21_Witness ==
    \E t \in Threads :
        /\ trace[t].polled # <<>>
        /\ trace[t].polled[1].tries = <<"validation", "error", "ok">>
        /\ trace[t].invoked = 2
        /\ target_center[t] = <<>>

----------------------------------------------------------------------------
(* C22: answers without a usable box *)

\* The answer of a poll was received and decoded
Decoded(call) == call.enc = "ok" /\ Answered(call.tries) /\ call.parsed
Degenerate(b) == b[3] <= b[1] \/ b[4] <= b[2]

\* C22: after a poll whose answer says found false, or holds a bbox that
\* has not exactly four entries or is degenerate (x_max <= x_min or
\* y_max <= y_min), the cached target is 'not found'; a cached box always
\* has x_min < x_max and y_min < y_max; and no bbox, however malformed,
\* ends the loop.
C22_UnusableBoxIsNotFound ==
    \A t \in Threads :
        /\ target_bbox[t] # <<>> =>
              target_bbox[t][1] < target_bbox[t][3] /\ target_bbox[t][2] < target_bbox[t][4]
        /\ (trace[t].polled # <<>> /\ Decoded(trace[t].polled[1])) =>
              LET call == trace[t].polled[1]
              IN  /\ trace[t].raised # "center"
                  /\ (\/ ~call.found
                      \/ Len(call.bbox) # 4
                      \/ Degenerate(call.bbox)) =>
                        target_bbox[t] = <<>> /\ target_center[t] = <<>>

----------------------------------------------------------------------------
(* C23: coordinates inside the frame *)

\* a coordinate in [0, 1], in 1/200 of the frame
InFrame(x) == 0 <= x /\ x <= 200

\* C23: whatever the remote service answered, the four coordinates of a
\* cached target box lie in [0, 1], and so do the two of the cached
\* target centre.
C23_CoordinatesInFrame ==
    \A t \in Threads :
        /\ target_bbox[t] # <<>> => \A i \in 1..4 : InFrame(target_bbox[t][i])
        /\ target_center[t] # <<>> => \A i \in 1..2 : InFrame(target_center[t][i])

----------------------------------------------------------------------------
(* C24: a snapshot that fails *)

\* C24: an iteration whose overlay or imwrite raised still evaluates the
\* guidance gate (which fires exactly when it is due) and ends at the
\* loop's next test of the flag: the failure does not end the loop.
C24_RecorderFailureSwallowed ==
    [][\A t \in Threads :
          (Iterated(t) /\ trace'[t].raised = "recorder") =>
            /\ lpc'[t] = "while"
            /\ fired'[t].guidance <=> clock - last_guidance_time[t] > 2]_vars

----------------------------------------------------------------------------
(* C25: a session without a hand tracker *)

\* The loop of thread t has passed init_hands_detector()
Initialised(t) == lpc[t] \notin {"none", "new", "begin"}

\* C25: in a session whose init_hands_detector() returned no detector the
\* hand is 'not found' after every iteration; a firing of the guidance
\* gate says the target-lost phrase when the target is absent and the
\* hand-lost phrase when it is present, never a directional phrase; and
\* no iteration is ended by the hand tracker.
C25_NoTrackerNoHand ==
    \A t \in Threads :
        (Initialised(t) /\ ~hands[t]) =>
            /\ hand_center[t] = <<>>
            /\ trace[t].raised # "hand"
            /\ fired[t].guidance =>
                  /\ ~Directional(said[t])
                  /\ IF target_center[t] = <<>> THEN TargetLost(said[t], tname[t])
                     ELSE HandLost(said[t])

\* without a detector, an iteration after the first has said 'I cannot see
\* your hand' about a target cached by an earlier poll
C25_Witness ==
    \E t \in Threads :
        /\ Initialised(t) /\ ~hands[t]
        /\ fired[t].guidance /\ ~fired[t].target
        /\ target_center[t] # <<>>
        /\ said[t] = <<"I cannot see your hand">>

----------------------------------------------------------------------------
(* C26: the order of the gates in one iteration *)

\* A snapshot and an utterance of the iteration use the target as it is
\* after the iteration's poll, and the hand of the iteration
UsesFresh(t) ==
    /\ trace'[t].shot # <<>> => trace'[t].shot = <<target_bbox'[t], hand_center'[t]>>
    /\ fired'[t].guidance =>
          SaysFor(said'[t], target_center'[t], hand_center'[t], tname[t])

\* In the first iteration with a frame the poll, the snapshot and the
\* utterance all happen, stamped with one clock reading
AllThreeFirst(t) ==
    last_target_time[t] = 0 =>
        /\ fired'[t].target /\ fired'[t].snapshot /\ fired'[t].guidance
        /\ trace'[t].polled # <<>> /\ trace'[t].shot # <<>> /\ trace'[t].spoken = 1
        /\ last_target_time'[t] = last_guidance_time'[t]
        /\ last_snapshot_time'[t] = last_guidance_time'[t]

\* C26: one iteration reads the clock once and runs target poll, hand
\* tracking, snapshot and guidance in that order: the snapshot and the
\* utterance of an iteration that polled use the fresh result, and in the
\* first iteration that gets a frame all three gates fire, the first
\* utterance coming after the first poll.
C26_OrderInIteration ==
    [][\A t \in Threads : Iterated(t) => UsesFresh(t) /\ AllThreeFirst(t)]_vars

----------------------------------------------------------------------------
(* C27: scans and the stored inventory *)

\* C27: a scan whose capture gave no frame or whose detection gave no
\* result leaves the stored inventory as it was; a scan that succeeds
\* stores every item name of the previous inventory, at count 0 when the
\* item was not detected and at the detected count otherwise; an item name
\* leaves the store only by a reset.
C27_ScanKeepsItems ==
    [][/\ (command'.cmd = "scan" /\ ~(command'.captured /\ command'.detected)) =>
            inventory' = inventory
       /\ (command'.cmd = "scan" /\ command' # command) =>
            /\ DOMAIN inventory \subseteq DOMAIN inventory'
            /\ command'.detected =>
                  \A item \in DOMAIN inventory :
                      inventory'[item] =
                          IF item \in DOMAIN command'.items THEN command'.items[item] ELSE 0
       /\ ~(DOMAIN inventory \subseteq DOMAIN inventory') => command'.cmd = "reset"]_vars

\* a scan has succeeded without detecting milk, which the store knew: milk
\* is kept at zero beside the detected rice
C27_Witness ==
    /\ command.cmd = "scan" /\ command.detected
    /\ DOMAIN command.items = {"rice"}
    /\ DOMAIN inventory = {"milk", "rice"}
    /\ inventory["milk"] = 0 /\ inventory["rice"] = command.items["rice"]


====
